---- MODULE Spec2Model ----
(***************************************************************************)
(* Observation protocol of the financial chat application:                 *)
(*   - render_visualization (app/ui.py): marker extraction and dispatch    *)
(*   - wrap_dataframe, handle_tool_error, create_tool_node_with_fallback   *)
(*     (app/tools/utils.py): marker embedding and the tool fallback        *)
(*   - fetch_stock_data and the tools built on it (app/tools/*.py,         *)
(*     app/features/chart.py)                                              *)
(*                                                                         *)
(* A string is a sequence of symbols.  The opening tokens "[CHART:",       *)
(* "[PLOTLY:" and "[TABLE:" are single symbols, so are "<observation>" and *)
(* "</observation>"; "]" is the closing bracket, "\n" is whitespace, "x"   *)
(* is a run of prose, and "{", "v", "}" are the pieces of an encoded       *)
(* payload ("{" opens and "}" closes a JSON object or a dict literal, "v"  *)
(* is a scalar or one base64 group).  In the text of a Python expression   *)
(* "!" is a call with an effect of its own, such as                        *)
(* __import__('os').system(...), and "array(" opens a call of the name     *)
(* `array`.                                                                *)
(***************************************************************************)
EXTENDS Integers, Sequences, FiniteSets, TLC

VARIABLES
    \* render_visualization
    content,      \* the local `content` of render_visualization
    input,        \* the argument render_visualization was called with
    calls,        \* what the sink (answer_container, st) received, in order
    sink,         \* the sink handlers that raise when called
    effects,      \* the calls of the payload's own that the run executed
    rpc,          \* "idle" | "ready" | "done" | "raised"
    \* the tool node with its fallback
    tool_calls,   \* state["messages"][-1].tool_calls: the batch of one agent turn
    outcome,      \* per tool call: "pending", "returned", or the error it raised
    invoked,      \* per tool call: how many times its tool was invoked
    node,         \* "idle" | "running" | "returned" | "raised" | "fallback"
    error,        \* state["error"]: the exception the tool node raised
    messages,     \* the messages handed back to the agent
    \* fetch_stock_data behind functools.lru_cache
    cache,        \* the entries of the lru_cache, most recently used first
    caller,       \* per calling thread: where it is in fetch_stock_data
    fetches,      \* per key: the external fetches issued for it
    \* one tool call
    tcall         \* the tool, what its collaborators answered, and its result

rvars == <<content, input, calls, sink, effects, rpc>>

bvars == <<tool_calls, outcome, invoked, node, error, messages>>

cvars == <<cache, caller, fetches>>

tvars == <<tcall>>

vars == <<rvars, bvars, cvars, tvars>>

(***************************************************************************)
(* Bounds                                                                  *)
(***************************************************************************)
MaxSegs == 3      \* an answer is made of at most this many segments
MaxBatch == 3     \* an agent turn requests at most this many tool calls
NumCallers == 2   \* threads that call fetch_stock_data
MaxCalls == 2     \* calls of fetch_stock_data per thread

(***************************************************************************)
(* Strings                                                                 *)
(***************************************************************************)
CHART == "[CHART:"
PLOTLY == "[PLOTLY:"
TABLE == "[TABLE:"
CLOSE == "]"
NL == "\n"
OBS_OPEN == "<observation>"
OBS_CLOSE == "</observation>"

Whitespace == {NL}

\* `sub in s`
Contains(s, sym) == \E i \in 1..Len(s) : s[i] = sym

IsAt(s, pat, i) ==
    /\ i + Len(pat) - 1 <= Len(s)
    /\ \A k \in 1..Len(pat) : s[i + k - 1] = pat[k]

\* s.index(pat, from): the least position >= from where pat occurs; 0 stands
\* for the ValueError that str.index raises when there is none.
Index(s, pat, from) ==
    LET hits == {i \in from..Len(s) : IsAt(s, pat, i)}
    IN IF hits = {} THEN 0 ELSE CHOOSE i \in hits : \A j \in hits : i <= j

RECURSIVE RemoveFrom(_, _, _)
RemoveFrom(s, old, i) ==
    IF i > Len(s) THEN <<>>
    ELSE IF IsAt(s, old, i) THEN RemoveFrom(s, old, i + Len(old))
    ELSE <<s[i]>> \o RemoveFrom(s, old, i + 1)

\* s.replace(old, ""): every non-overlapping occurrence, left to right
Replace(s, old) == RemoveFrom(s, old, 1)

\* s.strip()
strip(s) ==
    LET solid == {i \in 1..Len(s) : s[i] \notin Whitespace}
    IN IF solid = {} THEN <<>>
       ELSE SubSeq(s, CHOOSE i \in solid : \A j \in solid : i <= j,
                      CHOOSE i \in solid : \A j \in solid : i >= j)

RECURSIVE Concat(_)
Concat(ss) == IF ss = <<>> THEN <<>> ELSE Head(ss) \o Concat(Tail(ss))

RECURSIVE Repeat(_, _)
Repeat(sym, n) == IF n = 0 THEN <<>> ELSE <<sym>> \o Repeat(sym, n - 1)

(***************************************************************************)
(* Payload codecs                                                          *)
(***************************************************************************)
\* A DataFrame is the sequence of its cells: "num" is a number, "str" is a
\* string that holds the character "]".
Cells == {"num", "str"}

EncodeCell(c) == IF c = "num" THEN "v" ELSE CLOSE

DecodeCell(sym) == IF sym = "v" THEN "num" ELSE "str"

\* DataFrame.to_json(): a JSON object of the cells
to_json(df) == <<"{">> \o [i \in 1..Len(df) |-> EncodeCell(df[i])] \o <<"}">>

\* The text is one complete object: "{", scalars and brackets, "}".
IsObject(p) ==
    /\ Len(p) >= 2
    /\ p[1] = "{"
    /\ p[Len(p)] = "}"
    /\ \A i \in 2..(Len(p) - 1) : p[i] \in {"v", CLOSE}

\* pd.read_json(table_str): raises unless the text is one complete object
read_json(p) ==
    IF IsObject(p)
    THEN [ok |-> TRUE, value |-> [i \in 1..(Len(p) - 2) |-> DecodeCell(p[i + 1])]]
    ELSE [ok |-> FALSE, value |-> <<>>]

\* base64.b64encode(chart_bytes.getvalue()).decode('utf-8'): the image is
\* counted in 3-byte groups, each encoded as one base64 group "v".
b64encode(n) == Repeat("v", n)

\* base64.b64decode(s): characters outside the base64 alphabet ("{", "}",
\* "]", whitespace) are dropped; the letters of prose or of a token leave
\* groups that do not pad, and the call raises.
b64decode(p) ==
    LET kept == SelectSeq(p, LAMBDA sym : sym \notin {"{", "}", CLOSE, NL})
    IN [ok |-> \A i \in 1..Len(kept) : kept[i] = "v", value |-> Len(kept)]

\* repr(chart_data['plotly']) for a figure with n traces.  The traces are
\* built from the index and the columns of a DataFrame (chart.py 49-96) and
\* to_plotly_json() hands them back as numpy arrays, so the text is
\* {'data': [array([v]), ..., array([v])], 'layout': ...}; the last "]"
\* closes the list of traces.
repr_figure(n) ==
    <<"{">> \o Concat([i \in 1..n |-> <<"array(", "v", CLOSE>>]) \o <<CLOSE, "}">>

\* The text parses as a Python expression: one call, or a dict display of
\* scalars, lists and calls.
IsExpression(p) ==
    \/ p = <<"!">>
    \/ /\ Len(p) >= 2
       /\ p[1] = "{"
       /\ p[Len(p)] = "}"
       /\ \A i \in 2..(Len(p) - 1) : p[i] \in {"v", CLOSE, "!", "array("}

\* go.Figure(eval(plotly_config)).  eval() compiles the text (a SyntaxError
\* runs nothing) and evaluates it left to right in the globals of ui.py: a
\* call in it is executed, and the name `array`, which ui.py does not
\* define, raises NameError and ends the evaluation.  go.Figure() raises
\* unless the value is a dict.  `executed` counts the calls that ran.
eval_figure(p) ==
    IF ~IsExpression(p)
    THEN [ok |-> FALSE, value |-> 0, executed |-> 0]
    ELSE LET undefined == {i \in 1..Len(p) : p[i] = "array("}
             stop == IF undefined = {} THEN Len(p) + 1
                     ELSE CHOOSE i \in undefined : \A j \in undefined : i <= j
         IN [ok |-> p[1] = "{" /\ undefined = {},
             value |-> Cardinality({i \in 1..Len(p) : p[i] = "v"}),
             executed |-> Cardinality({i \in 1..(stop - 1) : p[i] = "!"})]

(***************************************************************************)
(* wrap_dataframe (app/tools/utils.py)                                     *)
(***************************************************************************)
Marker(open, payload) == <<open>> \o payload \o <<CLOSE>>

ObsPrefix == <<NL, OBS_OPEN, NL>>
ObsSuffix == <<NL, OBS_CLOSE, NL>>

\* utils.py 12-29.  `e` is the message of the exception df.to_json() raises,
\* "" when it returns.
wrap_dataframe(df, e) ==
    IF e = ""
    THEN ObsPrefix \o Marker(TABLE, to_json(df)) \o ObsSuffix
    ELSE <<NL, OBS_OPEN, "Error converting DataFrame: ", e>> \o ObsSuffix

(***************************************************************************)
(* render_visualization (app/ui.py)                                        *)
(***************************************************************************)
Handlers == {"image", "plotly_chart", "dataframe"}

Call(h, arg) == [h |-> h, arg |-> arg]

\* st.error(f"Error rendering ...: {e}")
Diagnostic(label) == Call("st.error", <<label>>)

\* The state of one run: the local `content`, the sink's log, the calls of
\* the payload's own that were executed, and the exception that left the
\* function ("" for none).
RunState(c) == [content |-> c, calls |-> <<>>, executed |-> 0, raised |-> ""]

\* ChartBranch without its try: a decode failure or a raising handler leaves
\* the function.
ChartBranch_NoTry(st, raising) ==
    LET c == st.content IN
    IF Contains(c, CHART) /\ Contains(c, CLOSE)
    THEN LET start == Index(c, <<CHART>>, 1) + 1
             end == Index(c, <<CLOSE>>, start)
         IN IF end = 0
            THEN [st EXCEPT !.raised = "ValueError"]
            ELSE LET base64_image == SubSeq(c, start, end - 1)
                 IN IF ~b64decode(base64_image).ok
                    THEN [st EXCEPT !.raised = "binascii.Error"]
                    ELSE IF "image" \in raising
                    THEN [st EXCEPT !.calls = @ \o <<Call("image", base64_image)>>,
                                    !.raised = "Exception"]
                    ELSE [st EXCEPT !.calls = @ \o <<Call("image", base64_image)>>,
                                    !.content = Replace(c, Marker(CHART, base64_image))]
    ELSE st

\* ui.py 80-94.  `raising` is the set of sink handlers that raise when called.
ChartBranch(st, raising) ==
    LET c == st.content IN
    IF Contains(c, CHART) /\ Contains(c, CLOSE)
    THEN LET start == Index(c, <<CHART>>, 1) + 1
             end == Index(c, <<CLOSE>>, start)
         IN IF end = 0
            THEN [st EXCEPT !.raised = "ValueError"]
            ELSE LET base64_image == SubSeq(c, start, end - 1)
                     image_bytes == b64decode(base64_image)
                 IN IF ~image_bytes.ok
                    THEN [st EXCEPT !.calls = @ \o <<Diagnostic("chart")>>]
                    ELSE IF "image" \in raising
                    THEN [st EXCEPT !.calls = @ \o <<Call("image", base64_image),
                                                    Diagnostic("chart")>>]
                    ELSE [st EXCEPT !.calls = @ \o <<Call("image", base64_image)>>,
                                    !.content = Replace(c, Marker(CHART, base64_image))]
    ELSE st

\* ui.py 97-110: the whole branch is inside one try
PlotlyBranch(st, raising) ==
    LET c == st.content IN
    IF Contains(c, PLOTLY) /\ Contains(c, CLOSE)
    THEN LET start == Index(c, <<PLOTLY>>, 1) + 1
             end == Index(c, <<CLOSE>>, start)
         IN IF end = 0
            THEN [st EXCEPT !.calls = @ \o <<Diagnostic("Plotly chart")>>]
            ELSE LET plotly_config == SubSeq(c, start, end - 1)
                     fig == eval_figure(plotly_config)
                     ran == [st EXCEPT !.executed = @ + fig.executed]
                 IN IF ~fig.ok
                    THEN [ran EXCEPT !.calls = @ \o <<Diagnostic("Plotly chart")>>]
                    ELSE IF "plotly_chart" \in raising
                    THEN [ran EXCEPT !.calls = @ \o <<Call("plotly_chart", plotly_config),
                                                     Diagnostic("Plotly chart")>>]
                    ELSE [ran EXCEPT !.calls = @ \o <<Call("plotly_chart", plotly_config)>>,
                                     !.content = Replace(c, Marker(PLOTLY, plotly_config))]
    ELSE st

\* ui.py 113-126: the whole branch is inside one try
TableBranch(st, raising) ==
    LET c == st.content IN
    IF Contains(c, TABLE) /\ Contains(c, CLOSE)
    THEN LET start == Index(c, <<TABLE>>, 1) + 1
             end == Index(c, <<CLOSE>>, start)
         IN IF end = 0
            THEN [st EXCEPT !.calls = @ \o <<Diagnostic("table")>>]
            ELSE LET table_str == SubSeq(c, start, end - 1)
                 IN IF ~read_json(table_str).ok
                    THEN [st EXCEPT !.calls = @ \o <<Diagnostic("table")>>]
                    ELSE IF "dataframe" \in raising
                    THEN [st EXCEPT !.calls = @ \o <<Call("dataframe", table_str),
                                                    Diagnostic("table")>>]
                    ELSE [st EXCEPT !.calls = @ \o <<Call("dataframe", table_str)>>,
                                    !.content = Replace(c, Marker(TABLE, table_str))]
    ELSE st

\* ui.py 129-130
WriteBranch(st) ==
    IF strip(st.content) # <<>>
    THEN [st EXCEPT !.calls = @ \o <<Call("write", st.content)>>]
    ELSE st

\* render_visualization with the table branch ahead of the figure branch
render_visualization_TableFirst(c, raising) ==
    LET s1 == ChartBranch(RunState(c), raising)
    IN IF s1.raised # "" THEN s1
       ELSE WriteBranch(PlotlyBranch(TableBranch(s1, raising), raising))

\* ui.py 70-130: the branches in the order of the code; an exception that
\* leaves a branch ends the function.
render_visualization(c, raising) ==
    LET s1 == ChartBranch(RunState(c), raising)
    IN IF s1.raised # "" THEN s1
       ELSE WriteBranch(TableBranch(PlotlyBranch(s1, raising), raising))

(***************************************************************************)
(* The answers render_visualization is called with (ui.py 169-173)         *)
(***************************************************************************)
\* Encoded payloads an answer may carry, per kind: some that decode, one
\* whose encoding holds "]" (figure, table), one that is prose.
ChartPayloads == {b64encode(1), b64encode(2), <<"x">>}
FigurePayloads == {<<"{", "v", "}">>, repr_figure(1), <<"x">>}
TablePayloads == {to_json(<<"num">>), to_json(<<"str">>), <<"x">>}

Segments ==
    {<<"x">>, <<NL>>, <<CLOSE>>, <<CHART>>, <<PLOTLY>>, <<TABLE>>}
    \cup {Marker(CHART, p) : p \in ChartPayloads}
    \cup {Marker(PLOTLY, p) : p \in FigurePayloads}
    \cup {Marker(TABLE, p) : p \in TablePayloads}

DataFrames == {<<"num">>, <<"num", "num">>, <<"str">>, <<"num", "str">>}

\* Figure payloads that hold a call: the agent's answer is text the model
\* wrote, after reading news and other fetched text.
CodePayloads == {<<"!">>, <<"{", "!", "}">>, <<"{", "v", "!", "}">>}

Answers ==
    {Concat(ss) : ss \in UNION {[1..n -> Segments] : n \in 0..MaxSegs}}
    \cup {wrap_dataframe(df, "") : df \in DataFrames}
    \cup {pre \o Marker(PLOTLY, p) \o post :
             p \in CodePayloads, pre \in {<<>>, <<"x">>}, post \in {<<>>, <<"x">>}}

RenderIdle ==
    /\ content = <<>>
    /\ input = <<>>
    /\ calls = <<>>
    /\ sink = {}
    /\ effects = 0
    /\ rpc = "idle"

RenderInit ==
    /\ input \in Answers
    /\ content = input
    /\ calls = <<>>
    /\ sink = {}
    /\ effects = 0
    /\ rpc = "ready"

\* ui.py 173: render_visualization(answer, answer_container)
Render ==
    /\ rpc = "ready"
    /\ \E raising \in SUBSET Handlers :
         LET r == render_visualization(input, raising)
         IN /\ sink' = raising
            /\ content' = r.content
            /\ calls' = r.calls
            /\ effects' = r.executed
            /\ rpc' = IF r.raised # "" THEN "raised" ELSE "done"
    /\ UNCHANGED <<input, bvars, cvars, tvars>>

(***************************************************************************)
(* The tool node and its fallback (app/tools/utils.py 52-69)               *)
(***************************************************************************)
\* What a tool call can raise past its tool: the tools catch Exception in
\* their bodies, argument validation and tool lookup happen outside them.
Errors == {"ValidationError", "KeyError"}

\* The ToolMessage of a call that returned: its own Observation.
Observation(tc) == [tool_call_id |-> tc.id, content |-> <<"observation", tc.id>>]

\* utils.py 57-60: ToolMessage(content=f"Error: {repr(error)}\n please fix
\* your mistakes.", tool_call_id=tc["id"])
Correction(tc, err) ==
    [tool_call_id |-> tc.id, content |-> <<"Error: ", err, "\n please fix your mistakes.">>]

\* handle_tool_error answering the first tool call only
handle_tool_error_FirstOnly(state) ==
    [messages |-> <<Correction(state.tool_calls[1], state.error)>>]

\* utils.py 52-63
handle_tool_error(state) ==
    [messages |-> [i \in 1..Len(state.tool_calls) |->
                      Correction(state.tool_calls[i], state.error)]]

BatchIdle ==
    /\ tool_calls = <<>>
    /\ outcome = <<>>
    /\ invoked = <<>>
    /\ node = "idle"
    /\ error = ""
    /\ messages = <<>>

\* The agent requests a batch of tool calls, each with an id of its own.
BatchInit ==
    /\ \E n \in 1..MaxBatch : tool_calls = [i \in 1..n |-> [id |-> i]]
    /\ outcome = [i \in 1..Len(tool_calls) |-> "pending"]
    /\ invoked = [i \in 1..Len(tool_calls) |-> 0]
    /\ node = "running"
    /\ error = ""
    /\ messages = <<>>

\* ToolNode runs the calls of the batch on an executor, each once; a call
\* returns its Observation ...
ToolReturns(i) ==
    /\ node = "running"
    /\ outcome[i] = "pending"
    /\ outcome' = [outcome EXCEPT ![i] = "returned"]
    /\ invoked' = [invoked EXCEPT ![i] = @ + 1]
    /\ UNCHANGED <<tool_calls, node, error, messages, rvars, cvars, tvars>>

\* ... or raises.
ToolRaises(i) ==
    /\ node = "running"
    /\ outcome[i] = "pending"
    /\ \E e \in Errors : outcome' = [outcome EXCEPT ![i] = e]
    /\ invoked' = [invoked EXCEPT ![i] = @ + 1]
    /\ UNCHANGED <<tool_calls, node, error, messages, rvars, cvars, tvars>>

\* ToolNode collects the results in the order of the calls: with every call
\* returned it returns their messages; otherwise the first error in that
\* order leaves it.
ToolNodeReturns ==
    /\ node = "running"
    /\ \A i \in 1..Len(tool_calls) : outcome[i] = "returned"
    /\ messages' = [i \in 1..Len(tool_calls) |-> Observation(tool_calls[i])]
    /\ node' = "returned"
    /\ UNCHANGED <<tool_calls, outcome, invoked, error, rvars, cvars, tvars>>

ToolNodeRaises ==
    /\ node = "running"
    /\ \A i \in 1..Len(tool_calls) : outcome[i] # "pending"
    /\ \E i \in 1..Len(tool_calls) :
         /\ outcome[i] \in Errors
         /\ \A j \in 1..(i - 1) : outcome[j] = "returned"
         /\ error' = outcome[i]
    /\ node' = "raised"
    /\ UNCHANGED <<tool_calls, outcome, invoked, messages, rvars, cvars, tvars>>

\* A fallback that runs the failed calls again before it answers.
Fallback_Retry ==
    /\ node = "raised"
    /\ invoked' = [i \in 1..Len(tool_calls) |->
                      IF outcome[i] \in Errors THEN invoked[i] + 1 ELSE invoked[i]]
    /\ messages' = handle_tool_error([tool_calls |-> tool_calls, error |-> error]).messages
    /\ node' = "fallback"
    /\ UNCHANGED <<tool_calls, outcome, error, rvars, cvars, tvars>>

\* utils.py 66-69: with_fallbacks([RunnableLambda(handle_tool_error)],
\* exception_key="error"): the fallback runs on the node's input, the error
\* under "error", and its result is the result of the node.
Fallback ==
    /\ node = "raised"
    /\ messages' = handle_tool_error([tool_calls |-> tool_calls, error |-> error]).messages
    /\ node' = "fallback"
    /\ UNCHANGED <<tool_calls, outcome, invoked, error, rvars, cvars, tvars>>

(***************************************************************************)
(* fetch_stock_data (app/tools/stock_stats.py 17-53)                       *)
(***************************************************************************)
maxsize == 128

Symbols == {"AAPL", "MSFT"}

\* The cache key: the arguments (symbol, start_date, end_date).  The tools
\* pass the date two years back and no end date (stock_stats.py 60-61, 78-79).
Key(symbol) == <<symbol, "start_date", "None">>

Keys == {Key(sym) : sym \in Symbols}

\* What a data source answers: a table (the rows it holds at that moment),
\* an empty table, or an exception.
Snapshots == {"rows1", "rows2"}
Answered == Snapshots \cup {"empty", "raise"}

\* stock_stats.py 30-53, given what yfinance and OpenBB answer: the table
\* returned (pd.DataFrame() is "empty").
fetch_body(yf, openbb) ==
    IF yf = "raise" THEN "empty"
    ELSE IF yf = "empty"
         THEN (IF openbb = "raise" THEN "empty" ELSE openbb)
         ELSE yf

Cached(c, k) == \E i \in 1..Len(c) : c[i].key = k

Lookup(c, k) == (CHOOSE e \in {c[i] : i \in 1..Len(c)} : e.key = k).value

\* A hit moves the entry to the front.
Touch(c, k) ==
    <<[key |-> k, value |-> Lookup(c, k)]>> \o SelectSeq(c, LAMBDA e : e.key # k)

\* lru_cache after the call: the result is stored unless another thread has
\* stored the key meanwhile; a full cache drops its least recently used entry.
Store(c, k, v) ==
    IF Cached(c, k) THEN c
    ELSE IF Len(c) >= maxsize
         THEN <<[key |-> k, value |-> v]>> \o SubSeq(c, 1, Len(c) - 1)
         ELSE <<[key |-> k, value |-> v]>> \o c

Callers == 1..NumCallers

Idle == [pc |-> "idle", key |-> <<>>, result |-> "", n |-> 0]

CacheIdle ==
    /\ cache = <<>>
    /\ caller = [t \in Callers |-> Idle]
    /\ fetches = [k \in Keys |-> 0]

CacheInit == CacheIdle

\* A tool calls fetch_stock_data(symbol, start_date): the lru_cache wrapper
\* looks the key up; a hit returns the cached table.
CallFetch(t, k) ==
    /\ caller[t].pc = "idle"
    /\ caller[t].n < MaxCalls
    /\ IF Cached(cache, k)
       THEN /\ caller' = [caller EXCEPT ![t] = [pc |-> "done", key |-> k,
                                                 result |-> Lookup(cache, k), n |-> @.n + 1]]
            /\ cache' = Touch(cache, k)
       ELSE /\ caller' = [caller EXCEPT ![t] = [pc |-> "missed", key |-> k,
                                                 result |-> "", n |-> @.n + 1]]
            /\ UNCHANGED cache
    /\ UNCHANGED <<fetches, rvars, bvars, tvars>>

\* stock_stats.py 31-32: after a miss the function body runs and issues the
\* external fetch.
IssueFetch(t) ==
    /\ caller[t].pc = "missed"
    /\ fetches' = [fetches EXCEPT ![caller[t].key] = @ + 1]
    /\ caller' = [caller EXCEPT ![t].pc = "waiting"]
    /\ UNCHANGED <<cache, rvars, bvars, tvars>>

\* stock_stats.py 32-53: the sources answer, the body returns its table and
\* the wrapper stores it.
FetchReturns(t) ==
    /\ caller[t].pc = "waiting"
    /\ \E yf \in Answered, openbb \in Answered :
         LET df == fetch_body(yf, openbb)
         IN /\ caller' = [caller EXCEPT ![t].pc = "done", ![t].result = df]
            /\ cache' = Store(cache, caller[t].key, df)
    /\ UNCHANGED <<fetches, rvars, bvars, tvars>>

\* The caller goes on with the table it received.
Proceed(t) ==
    /\ caller[t].pc = "done"
    /\ caller[t].n < MaxCalls
    /\ caller' = [caller EXCEPT ![t].pc = "idle"]
    /\ UNCHANGED <<cache, fetches, rvars, bvars, tvars>>

(***************************************************************************)
(* The tools (app/tools/stock_stats.py, app/tools/stock_charts.py,         *)
(* app/features/chart.py)                                                  *)
(***************************************************************************)
LastDays == 30

\* The table of a snapshot, as its cells.
Table(rows) == IF rows = "rows1" THEN <<"num">> ELSE <<"num", "num">>

\* stock_stats.py 67: df[-30:][::-1]
LastReversed(df) ==
    LET last == IF Len(df) > LastDays THEN SubSeq(df, Len(df) - LastDays + 1, Len(df)) ELSE df
    IN [i \in 1..Len(last) |-> last[Len(last) + 1 - i]]

\* f"\n<observation>\n{text}\n</observation>\n"
Framed(text) == ObsPrefix \o text \o ObsSuffix

\* The exceptions of the collaborators, by their messages.
Raised(step) == <<"raised by ", step>>

\* What the collaborators of a tool call do: the data sources answer, and
\* each later step returns (TRUE) or raises (FALSE).
Envs ==
    [yf : Answered, openbb : Answered, add_technicals : BOOLEAN, to_json : BOOLEAN,
     write_image : BOOLEAN, imgur : BOOLEAN, llm : BOOLEAN]

Returned(text) == [pc |-> "returned", obs |-> text]

\* stock_stats.py 56-71
get_stock_price_history(env) ==
    LET df == fetch_body(env.yf, env.openbb)
    IN IF df = "empty"
       THEN Returned(Framed(<<"No data found for the given symbol">>))
       ELSE IF ~env.add_technicals
       THEN Returned(Framed(<<"Error: ">> \o Raised("add_technicals")))
       ELSE Returned(wrap_dataframe(LastReversed(Table(df)),
                                    IF env.to_json THEN "" ELSE "raised by to_json"))

\* chart.py 179-206: the dict returned, by its keys
get_chart_base64(env) ==
    IF env.openbb = "raise"
    THEN [keys |-> {"error"}, error |-> <<"Failed to generate chart: ">> \o Raised("historical")]
    ELSE IF env.openbb = "empty"
    THEN [keys |-> {"error"}, error |-> <<"Stock data not found">>]
    ELSE IF ~env.add_technicals
    THEN [keys |-> {"error"}, error |-> <<"Failed to generate chart: ">> \o Raised("add_technicals")]
    ELSE IF ~env.write_image
    THEN [keys |-> {"error"}, error |-> <<"Failed to generate chart: ">> \o Raised("write_image")]
    ELSE IF ~env.imgur
    THEN [keys |-> {"error"}, error |-> <<"Failed to generate chart: ">> \o Raised("upload_image_to_imgur")]
    ELSE [keys |-> {"chart", "url", "plotly"},
          chart |-> b64encode(Len(Table(env.openbb))),
          plotly |-> Len(Table(env.openbb))]

\* stock_charts.py 10-50
get_stock_chart_analysis(env) ==
    LET chart_data == get_chart_base64(env)
        image == IF "chart" \in chart_data.keys
                 THEN Marker(CHART, chart_data.chart) ELSE <<>>
        visualization_markers ==
            IF "plotly" \in chart_data.keys
            THEN image \o Marker(PLOTLY, repr_figure(chart_data.plotly)) ELSE image
    IN IF "chart" \notin chart_data.keys
       THEN Returned(Framed(<<"Error: ", "'chart'">>))
       ELSE IF ~env.llm
       THEN Returned(Framed(<<"Error: ">> \o Raised("llm.invoke")))
       ELSE Returned(Framed(visualization_markers \o <<"x">>))

\* stock_stats.py 316-348.  `env` says whether yf.Ticker or one of its
\* statements raises, and which of the three statements hold rows.
get_stock_financials(env) ==
    IF ~env.ticker
    THEN Returned(Framed(<<"Error fetching financials for symbol: ">> \o Raised("yf.Ticker")))
    ELSE IF ~env.income_stmt /\ ~env.balance_sheet /\ ~env.cashflow
    THEN Returned(Framed(<<"No financial data found for symbol">>))
    ELSE Returned(
           <<NL, OBS_OPEN, NL>>
           \o (IF env.income_stmt THEN <<"Income Statement:", NL, "x", NL, NL>> ELSE <<>>)
           \o (IF env.balance_sheet THEN <<"Balance Sheet:", NL, "x", NL, NL>> ELSE <<>>)
           \o (IF env.cashflow THEN <<"Cash Flow Statement:", NL, "x", NL>> ELSE <<>>)
           \o <<OBS_CLOSE, NL>>)

FinancialEnvs ==
    [ticker : BOOLEAN, income_stmt : BOOLEAN, balance_sheet : BOOLEAN, cashflow : BOOLEAN]

\* What the Alpha Vantage endpoint does with the request: it answers with a
\* feed of news, with no feed, with something response.json() or the
\* connection raises on, or it never answers.
Responses == {"feed", "no feed", "raise"}

NewsEnvs == [api_key : BOOLEAN, response : Responses \cup {"never"}, to_json : BOOLEAN]

\* The news feed as a DataFrame: its cells are strings.
Feed == <<"str", "str">>

\* stock_sentiment.py 23-59, for a request that was answered
get_news_sentiment(env) ==
    IF ~env.api_key
    THEN Returned(Framed(<<"Alpha Vantage API key not found in environment variables">>))
    ELSE IF env.response = "raise"
    THEN Returned(Framed(<<"Error: ">> \o Raised("requests.get")))
    ELSE IF env.response = "no feed"
    THEN Returned(Framed(<<"No news found for the given symbol">>))
    ELSE Returned(wrap_dataframe(Feed, IF env.to_json THEN "" ELSE "raised by to_json"))

Tools ==
    {"get_stock_price_history", "get_stock_chart_analysis", "get_stock_financials",
     "get_news_sentiment"}

NoEnv ==
    [yf |-> "empty", openbb |-> "empty", add_technicals |-> TRUE, to_json |-> TRUE,
     write_image |-> TRUE, imgur |-> TRUE, llm |-> TRUE]

ToolIdle == tcall = [tool |-> "", env |-> NoEnv, pc |-> "idle", obs |-> <<>>]

\* The agent requests one tool call.
ToolInit ==
    \E tool \in Tools : tcall = [tool |-> tool, env |-> NoEnv, pc |-> "pending", obs |-> <<>>]

InvokePriceHistory ==
    /\ tcall.pc = "pending"
    /\ tcall.tool = "get_stock_price_history"
    /\ \E env \in Envs :
         /\ env.write_image /\ env.imgur /\ env.llm
         /\ LET r == get_stock_price_history(env)
            IN tcall' = [tcall EXCEPT !.env = env, !.pc = r.pc, !.obs = r.obs]
    /\ UNCHANGED <<rvars, bvars, cvars>>

InvokeChartAnalysis ==
    /\ tcall.pc = "pending"
    /\ tcall.tool = "get_stock_chart_analysis"
    /\ \E env \in Envs :
         /\ env.yf = "empty" /\ env.to_json
         /\ LET r == get_stock_chart_analysis(env)
            IN tcall' = [tcall EXCEPT !.env = env, !.pc = r.pc, !.obs = r.obs]
    /\ UNCHANGED <<rvars, bvars, cvars>>

InvokeFinancials ==
    /\ tcall.pc = "pending"
    /\ tcall.tool = "get_stock_financials"
    /\ \E env \in FinancialEnvs :
         LET r == get_stock_financials(env)
         IN tcall' = [tcall EXCEPT !.env = env, !.pc = r.pc, !.obs = r.obs]
    /\ UNCHANGED <<rvars, bvars, cvars>>

\* stock_sentiment.py 30-35: without an API key the tool returns at once;
\* with one it sends the request, requests.get(url), and waits for the
\* response.
InvokeNewsSentiment ==
    /\ tcall.pc = "pending"
    /\ tcall.tool = "get_news_sentiment"
    /\ \E env \in NewsEnvs :
         IF ~env.api_key
         THEN /\ env.response = "feed" /\ env.to_json
              /\ LET r == get_news_sentiment(env)
                 IN tcall' = [tcall EXCEPT !.env = env, !.pc = r.pc, !.obs = r.obs]
         ELSE tcall' = [tcall EXCEPT !.env = env, !.pc = "waiting"]
    /\ UNCHANGED <<rvars, bvars, cvars>>

\* stock_sentiment.py 35-59: requests.get(url) is called without a timeout,
\* so the tool goes on when, and only when, the endpoint answers.
NewsResponse ==
    /\ tcall.pc = "waiting"
    /\ tcall.env.response \in Responses
    /\ LET r == get_news_sentiment(tcall.env)
       IN tcall' = [tcall EXCEPT !.pc = r.pc, !.obs = r.obs]
    /\ UNCHANGED <<rvars, bvars, cvars>>

RenderNext == Render

InitRender == RenderInit /\ BatchIdle /\ CacheIdle /\ ToolIdle

SpecRender == InitRender /\ [][RenderNext]_vars

BatchNext ==
    \/ \E i \in 1..Len(tool_calls) : ToolReturns(i)
    \/ \E i \in 1..Len(tool_calls) : ToolRaises(i)
    \/ ToolNodeReturns
    \/ ToolNodeRaises
    \/ Fallback

InitBatch == BatchInit /\ RenderIdle /\ CacheIdle /\ ToolIdle

SpecBatch == InitBatch /\ [][BatchNext]_vars

CacheNext ==
    \/ \E t \in Callers, k \in Keys : CallFetch(t, k)
    \/ \E t \in Callers : IssueFetch(t)
    \/ \E t \in Callers : FetchReturns(t)
    \/ \E t \in Callers : Proceed(t)

InitCache == CacheInit /\ RenderIdle /\ BatchIdle /\ ToolIdle

SpecCache == InitCache /\ [][CacheNext]_vars

ToolNext ==
    \/ InvokePriceHistory
    \/ InvokeChartAnalysis
    \/ InvokeFinancials
    \/ InvokeNewsSentiment
    \/ NewsResponse

InitTool == ToolInit /\ RenderIdle /\ BatchIdle /\ CacheIdle

SpecTool == InitTool /\ [][ToolNext]_vars

\* The tool call under a fair scheduler: a step of the tool that can be
\* taken is taken.  Nothing is assumed of the endpoint.
SpecToolFair == InitTool /\ [][ToolNext]_vars /\ WF_vars(ToolNext)

(***************************************************************************)
(* Properties of render_visualization                                      *)
(***************************************************************************)
Kinds == {"chart", "figure", "table"}

Open(k) == CASE k = "chart" -> CHART [] k = "figure" -> PLOTLY [] OTHER -> TABLE

HandlerOf(k) ==
    CASE k = "chart" -> "image" [] k = "figure" -> "plotly_chart" [] OTHER -> "dataframe"

LabelOf(k) ==
    CASE k = "chart" -> "chart" [] k = "figure" -> "Plotly chart" [] OTHER -> "table"

Rank(h) == CASE h = "image" -> 1 [] h = "plotly_chart" -> 2 [] OTHER -> 3

IsOpening(sym) == sym \in {CHART, PLOTLY, TABLE}

\* A marker instance: an opening token at i, closed by the first "]" after
\* it, with no other opening token in between.
IsMarkerAt(s, i) ==
    /\ IsOpening(s[i])
    /\ LET e == Index(s, <<CLOSE>>, i + 1)
       IN e # 0 /\ \A j \in (i + 1)..(e - 1) : ~IsOpening(s[j])

MarkerInstances(k, s) == {i \in 1..Len(s) : s[i] = Open(k) /\ IsMarkerAt(s, i)}

\* The first opening token of the kind starts a marker instance.
FirstIsMarker(k, s) ==
    LET i == Index(s, <<Open(k)>>, 1) IN i # 0 /\ IsMarkerAt(s, i)

FirstPayload(k, s) ==
    LET i == Index(s, <<Open(k)>>, 1)
    IN SubSeq(s, i + 1, Index(s, <<CLOSE>>, i + 1) - 1)

DecodesAs(k, p) ==
    CASE k = "chart" -> b64decode(p).ok
      [] k = "figure" -> eval_figure(p).ok
      [] OTHER -> read_json(p).ok

\* The payload handlers called, in order.
HandlerSeq(cs) ==
    LET hs == SelectSeq(cs, LAMBDA c : c.h \in Handlers)
    IN [i \in 1..Len(hs) |-> hs[i].h]

\* A dispatch of kind k: its handler was called, or its diagnostic was
\* written without the handler having been called.
IsDispatch(cs, i, k) ==
    \/ cs[i].h = HandlerOf(k)
    \/ /\ cs[i] = Diagnostic(LabelOf(k))
       /\ (i = 1 \/ cs[i - 1].h # HandlerOf(k))

Dispatches(cs, k) == {i \in 1..Len(cs) : IsDispatch(cs, i, k)}

\* The kinds dispatched, in order.
DispatchSeq(cs) ==
    LET idx == SelectSeq([i \in 1..Len(cs) |-> i],
                         LAMBDA i : \E k \in Kinds : IsDispatch(cs, i, k))
    IN [n \in 1..Len(idx) |-> CHOOSE k \in Kinds : IsDispatch(cs, idx[n], k)]

Finished == rpc \in {"done", "raised"}

\* The answers made of one marker of each kind and nothing else, in any of
\* the six orders, with the payloads they carry.
OneOfEach ==
    {[s |-> Concat([i \in 1..3 |->
                      Marker(Open(q[i]),
                             CASE q[i] = "chart" -> cp [] q[i] = "figure" -> fp [] OTHER -> tp)]),
      cp |-> cp, fp |-> fp, tp |-> tp] :
        cp \in ChartPayloads, fp \in FigurePayloads, tp \in TablePayloads,
        q \in {f \in [1..3 -> Kinds] : \A k \in Kinds : \E i \in 1..3 : f[i] = k}}

C4_IdempotentStripping ==
    rpc = "done" =>
      /\ \A k \in Kinds : MarkerInstances(k, content) = {}
      /\ \A raising \in SUBSET Handlers :
            LET again == render_visualization(content, raising)
            IN /\ HandlerSeq(again.calls) = <<>>
               /\ again.content = content

\* C5 -- Every marker instance of the answer is dispatched exactly once: per
\* kind, an answer that holds n >= 1 marker instances gets n dispatches, and
\* one that holds none gets no handler call.
C5_EveryInstanceOnce ==
    rpc = "done" =>
      \A k \in Kinds :
         LET n == Cardinality(MarkerInstances(k, input))
         IN IF n = 0
            THEN \A i \in 1..Len(calls) : calls[i].h # HandlerOf(k)
            ELSE Cardinality(Dispatches(calls, k)) = n

\* C6 -- Framing is robust to "]": the table payload extracted from the
\* marker wrap_dataframe produced is the whole encoded payload.
C6_FramingRobust ==
    rpc = "done" =>
      \A df \in DataFrames :
         input = wrap_dataframe(df, "") =>
            \E i \in 1..Len(calls) : calls[i] = Call("dataframe", to_json(df))

\* Where an exception leaves render_visualization: the first "[CHART:" has
\* no "]" after it while a "]" stands before it.
ChartUnterminated(s) ==
    /\ Contains(s, CHART) /\ Contains(s, CLOSE)
    /\ Index(s, <<CLOSE>>, Index(s, <<CHART>>, 1) + 1) = 0

C8_ResidualText ==
    rpc = "done" =>
      /\ (\E i \in 1..Len(calls) : calls[i].h = "write") <=> (strip(content) # <<>>)
      /\ \A df \in DataFrames :
            (input = wrap_dataframe(df, "") /\ ~Contains(to_json(df), CLOSE)
             /\ "dataframe" \notin sink) =>
               /\ HandlerSeq(calls) = <<"dataframe">>
               /\ strip(content) = <<>>
               /\ \A i \in 1..Len(calls) : calls[i].h # "write"

\* C9 -- Render never crashes the turn: no exception leaves
\* render_visualization.
C9_NeverRaises == rpc # "raised"

(***************************************************************************)
(* Properties of the tool node, the cache and the tools                    *)
(***************************************************************************)
Settled == node \in {"returned", "fallback"}

Failing == {i \in 1..Len(tool_calls) : outcome[i] \in Errors}

IsCorrection(m) == m.content[1] = "Error: "

Corrections == {i \in 1..Len(messages) : IsCorrection(messages[i])}

\* C1 -- Fault isolation across a batch: when exactly one call of the batch
\* raises, every other call's own Observation reaches the agent, and exactly
\* one Correction Message is produced, carrying the id of the failing call.
C1_FaultIsolation ==
    (Settled /\ Cardinality(Failing) = 1) =>
       /\ \A i \in 1..Len(tool_calls) :
             i \notin Failing =>
                \E j \in 1..Len(messages) : messages[j] = Observation(tool_calls[i])
       /\ Cardinality(Corrections) = 1
       /\ \A j \in Corrections :
             \E i \in Failing : messages[j].tool_call_id = tool_calls[i].id

\* C2 -- Single in-flight fetch per cache key: when two threads have each
\* called fetch_stock_data once with the same key, starting from a cache
\* without it, one external fetch was issued for the key and both received
\* the same table, however their steps interleaved.
C2_SingleFlight ==
    \A t1, t2 \in Callers :
       (/\ t1 # t2
        /\ caller[t1].pc = "done" /\ caller[t1].n = 1
        /\ caller[t2].pc = "done" /\ caller[t2].n = 1
        /\ caller[t1].key = caller[t2].key
        /\ \A t \in Callers \ {t1, t2} : caller[t].n = 0)
       => /\ fetches[caller[t1].key] = 1
          /\ caller[t1].result = caller[t2].result

\* The data source of the tool call answered with an empty table, and
\* nothing else failed.
SourceEmpty ==
    CASE tcall.tool = "get_stock_price_history" ->
           fetch_body(tcall.env.yf, tcall.env.openbb) = "empty"
           /\ tcall.env.yf # "raise" /\ tcall.env.openbb # "raise"
      [] tcall.tool = "get_stock_chart_analysis" ->
           tcall.env.openbb = "empty"
           /\ tcall.env.add_technicals /\ tcall.env.write_image
           /\ tcall.env.imgur /\ tcall.env.llm
      [] tcall.tool = "get_stock_financials" ->
           tcall.env.ticker /\ ~tcall.env.income_stmt
           /\ ~tcall.env.balance_sheet /\ ~tcall.env.cashflow
      [] OTHER -> tcall.env.api_key /\ tcall.env.response = "no feed"

\* The Observations that say that there is no data.
NoDataObservations ==
    {Framed(<<"No data found for the given symbol">>), Framed(<<"Stock data not found">>),
     Framed(<<"No financial data found for symbol">>),
     Framed(<<"No news found for the given symbol">>)}

\* C10 -- No raw exception crosses a tool boundary: whatever its data source
\* or a later step does, the tool call returns an Observation string and
\* does not raise; when the data source answers with an empty table the
\* Observation is an explicit "no data" one, without a marker.
C10_NoRawException ==
    tcall.pc \notin {"idle", "pending", "waiting"} =>
       /\ tcall.pc = "returned"
       /\ tcall.obs # <<>>
       /\ SourceEmpty =>
             /\ tcall.obs \in NoDataObservations
             /\ \A i \in 1..Len(tcall.obs) : ~IsOpening(tcall.obs[i])

\* C11 -- Observation framing: every string a tool returns, on every path,
\* starts with "\n<observation>\n" and ends with "\n</observation>\n".
C11_ObservationFraming ==
    tcall.pc = "returned" =>
       /\ Len(tcall.obs) >= Len(ObsPrefix) + Len(ObsSuffix)
       /\ SubSeq(tcall.obs, 1, Len(ObsPrefix)) = ObsPrefix
       /\ SubSeq(tcall.obs, Len(tcall.obs) - Len(ObsSuffix) + 1, Len(tcall.obs)) = ObsSuffix

\* C12 -- No automatic retry: each tool call of a batch is invoked at most
\* once by the tool node and its fallback; when the node has finished, with
\* or without the fallback, every call has been invoked exactly once, and
\* the fallback only produced messages: the failed calls keep their errors.
C12_NoAutomaticRetry ==
    /\ \A i \in 1..Len(tool_calls) : invoked[i] <= 1
    /\ node \in {"returned", "raised", "fallback"} =>
          \A i \in 1..Len(tool_calls) : invoked[i] = 1
    /\ node = "fallback" =>
          /\ Failing # {}
          /\ Len(messages) = Len(tool_calls)

\* C12 witness: the fallback has answered a batch of three calls of which
\* two failed, and each call was invoked once.
C12_Witness ==
    /\ node = "fallback"
    /\ Len(tool_calls) = 3
    /\ Cardinality(Failing) = 2
    /\ \A i \in 1..Len(tool_calls) : invoked[i] = 1

\* C13 -- A figure payload is never executed as code: whatever the text
\* between "[PLOTLY:" and its "]" holds, rendering executes no call of it.
C13_PayloadNeverExecuted == effects = 0

\* What the tool call encoded: the table of get_stock_price_history or of
\* get_news_sentiment, the image and the figure of get_stock_chart_analysis.
EncodedTable ==
    CASE tcall.tool = "get_stock_price_history"
           /\ fetch_body(tcall.env.yf, tcall.env.openbb) # "empty"
           /\ tcall.env.add_technicals /\ tcall.env.to_json ->
             <<LastReversed(Table(fetch_body(tcall.env.yf, tcall.env.openbb)))>>
      [] tcall.tool = "get_news_sentiment"
           /\ tcall.env.api_key /\ tcall.env.response = "feed" /\ tcall.env.to_json ->
             <<Feed>>
      [] OTHER -> <<>>

EncodedChart ==
    IF tcall.tool = "get_stock_chart_analysis"
       /\ "plotly" \in get_chart_base64(tcall.env).keys
       /\ tcall.env.llm
    THEN <<get_chart_base64(tcall.env)>>
    ELSE <<>>

\* C14 -- Codec round trip: what a tool encoded (a table with
\* DataFrame.to_json, an image with base64, a figure with repr) is decoded
\* by the decoder of render_visualization, and the decoded payload equals
\* the one encoded, the cells of a table in their order.
C14_CodecRoundTrip ==
    tcall.pc = "returned" =>
       /\ \A i \in 1..Len(EncodedTable) :
             read_json(to_json(EncodedTable[i])) = [ok |-> TRUE, value |-> EncodedTable[i]]
       /\ \A i \in 1..Len(EncodedChart) :
             LET image == Len(Table(tcall.env.openbb))
                 figure == EncodedChart[i].plotly
             IN /\ EncodedChart[i].chart = b64encode(image)
                /\ b64decode(b64encode(image)) = [ok |-> TRUE, value |-> image]
                /\ eval_figure(repr_figure(figure)).ok
                /\ eval_figure(repr_figure(figure)).value = figure

\* C15 -- Every tool call eventually settles: a tool call that is pending,
\* or waiting for its data source, eventually returns or fails, even when
\* the data source never answers.
C15_EventuallySettles ==
    (tcall.pc \in {"pending", "waiting"}) ~> (tcall.pc \in {"returned", "raised"})

\* The text occurs in s.
Occurs(s, pat) == \E i \in 1..Len(s) : IsAt(s, pat, i)

\* C16 -- Marker removal is unconditional: for the marker of each kind that
\* a finished pass located, decoded or not, rendered or not, the span from
\* its opening token to its closing bracket is absent from the residual
\* text and from the text handed to the text handler.
C16_RemovalUnconditional ==
    rpc = "done" =>
       \A k \in Kinds :
          FirstIsMarker(k, input) =>
             LET span == Marker(Open(k), FirstPayload(k, input))
             IN /\ ~Occurs(content, span)
                /\ \A i \in 1..Len(calls) :
                      calls[i].h = "write" => ~Occurs(calls[i].arg, span)

\* C17 -- The fallback answers the whole batch alike: it returns one message
\* per tool call of the last agent message, in the order of the calls, each
\* with the id of its call and all with the same content, built from the one
\* recorded error; so every id of the batch has exactly one answering
\* message and no call, returned or not, has its Observation.
C17_FallbackAnswersAll ==
    node = "fallback" =>
       /\ error \in Errors
       /\ Len(messages) = Len(tool_calls)
       /\ \A i \in 1..Len(tool_calls) :
             /\ messages[i].tool_call_id = tool_calls[i].id
             /\ messages[i].content = <<"Error: ", error, "\n please fix your mistakes.">>
             /\ Cardinality({j \in 1..Len(messages) :
                               messages[j].tool_call_id = tool_calls[i].id}) = 1
             /\ \A j \in 1..Len(messages) : messages[j] # Observation(tool_calls[i])

\* C17 witness: of three calls the second raised and the others returned;
\* all three are answered with the error of the second.
C17_Witness ==
    /\ node = "fallback"
    /\ Len(tool_calls) = 3
    /\ outcome = <<"returned", "KeyError", "returned">>
    /\ messages = [i \in 1..3 |-> Correction(tool_calls[i], "KeyError")]

\* C18 -- fetch_stock_data never raises and memoizes a failure: a finished
\* call holds a table, empty when the fetch failed, never an exception; its
\* key is cached; and when it received the empty table, the empty table is
\* what the cache holds for the key, so later calls with the key get it
\* from the cache.
C18_FailureMemoized ==
    \A t \in Callers :
       caller[t].pc = "done" =>
          /\ caller[t].result \in Snapshots \cup {"empty"}
          /\ Cached(cache, caller[t].key)
          /\ caller[t].result = "empty" => Lookup(cache, caller[t].key) = "empty"

====
